---- MODULE Spec2Model ----
(***************************************************************************)
(* Model of the cache library: the abstract Cache<K,V> interface           *)
(* (cache.hpp) and its implementations ARCache (arc_cache.hpp), LRUCache   *)
(* (lru_cache.hpp) and LFUCache (lfu_cache.hpp).                           *)
(*                                                                         *)
(* A std::list<K> is a sequence, front first.  A list iterator is modelled *)
(* by the key held in the node it points to (the lists never hold a key    *)
(* twice, which ListsDisjoint checks); a value-initialised iterator is     *)
(* Singular.  An unordered_map is a function on its key set.               *)
(* Every public call is one atomic action: the program is single-threaded. *)
(* A call that executes undefined behaviour (back()/pop_back() of an empty *)
(* list, erase() through an iterator that is not in the list) terminates   *)
(* the process, which is what the build does; the variable fault records   *)
(* it, the other variables keep their value at the faulting statement, and *)
(* no call follows.                                                        *)
(***************************************************************************)
EXTENDS Integers, Sequences, FiniteSets, TLC

\* ---------------------------------------------------------------- bounds
MaxKey == 3
MaxVal == 2
MaxCapacity == 2
MaxFreq == 3        \* LFUCache: no key is touched more often than this

Keys == 1..MaxKey
Values == 1..MaxVal
Capacities == 0..MaxCapacity

\* a value-initialised std::list iterator, and a value-initialised V
Singular == 0
NoValue == 0

VARIABLES
    impl,       \* the concrete class behind the Cache<K,V>& in use
    capacity,   \* size_t capacity
    p,          \* ARCache: target size for T1
    t1, t2, b1, b2,                 \* ARCache: the four std::list<K>
    t1_map, t2_map, b1_map, b2_map, \* ARCache: the four unordered_maps
    cache_list, cache_map,          \* LRUCache: the list of pairs, its index
    minFreq,                        \* LFUCache: size_t minFreq
    keyToVal, keyToIter, freqToKeys, \* LFUCache: the three maps
    fault,      \* "none", or the undefined operation that ended the process
    last,       \* the last call made, what it met and what it returned
    trace,      \* the calls made since construction, while on a script
    cache, ghost,   \* ARCache of arc.hpp: the index of T1, T2 and of B1, B2
    recency,    \* LRUCache, LFUCache: the keys resident before the last call
                \* and the key it touched, latest touch first
    uses        \* LFUCache: each resident key's touches since its insertion

arcVars == <<p, t1, t2, b1, b2, t1_map, t2_map, b1_map, b2_map>>
lruVars == <<cache_list, cache_map>>
lfuVars == <<minFreq, keyToVal, keyToIter, freqToKeys>>
hppVars == <<cache, ghost>>
vars == <<impl, capacity, p, t1, t2, b1, b2, t1_map, t2_map, b1_map, b2_map,
          cache_list, cache_map, minFreq, keyToVal, keyToIter, freqToKeys,
          fault, last, trace, cache, ghost, recency, uses>>
histVars == <<recency, uses>>

\* ------------------------------------------------- std::list, std::map
EmptyMap == [x \in {} |-> 0]

Max(a, b) == IF a >= b THEN a ELSE b
Min(a, b) == IF a <= b THEN a ELSE b

push_front(l, k) == <<k>> \o l
back(l) == l[Len(l)]
pop_back(l) == SubSeq(l, 1, Len(l) - 1)
begin(l) == l[1]
InList(l, it) == \E i \in 1..Len(l) : l[i] = it
erase(l, it) == SelectSeq(l, LAMBDA x : x # it)
Members(l) == {l[i] : i \in 1..Len(l)}

count(m, k) == IF k \in DOMAIN m THEN 1 ELSE 0
map_erase(m, k) == [x \in (DOMAIN m) \ {k} |-> m[x]]
map_set(m, k, e) == [x \in (DOMAIN m) \cup {k} |-> IF x = k THEN e ELSE m[x]]
\* operator[]: inserts a value-initialised element when the key is absent
map_index(m, k, dflt) == IF k \in DOMAIN m THEN m ELSE map_set(m, k, dflt)

\* ------------------------------------------------------------- ARCache
ARCache_ctor(size) ==
    [capacity |-> size, p |-> 0,
     t1 |-> <<>>, t2 |-> <<>>, b1 |-> <<>>, b2 |-> <<>>,
     t1_map |-> EmptyMap, t2_map |-> EmptyMap,
     b1_map |-> EmptyMap, b2_map |-> EmptyMap,
     fault |-> "none"]

ArcState ==
    [capacity |-> capacity, p |-> p,
     t1 |-> t1, t2 |-> t2, b1 |-> b1, b2 |-> b2,
     t1_map |-> t1_map, t2_map |-> t2_map,
     b1_map |-> b1_map, b2_map |-> b2_map,
     fault |-> fault]

Entry(v, it) == [first |-> v, second |-> it]

\* replace taking the front (most recent) key of the list instead of its tail
replace_front(s, in_b2) ==
    IF s.t1 # <<>> /\ (Len(s.t1) > s.p \/ (in_b2 /\ Len(s.t1) = s.p))
    THEN LET lru_key == begin(s.t1)
             nb1 == push_front(s.b1, lru_key)
         IN  [s EXCEPT !.t1 = Tail(@),
                       !.t1_map = map_erase(@, lru_key),
                       !.b1 = nb1,
                       !.b1_map = map_set(@, lru_key, begin(nb1))]
    ELSE IF s.t2 = <<>>
         THEN [s EXCEPT !.fault = "back of empty t2"]
         ELSE LET lru_key == begin(s.t2)
                  nb2 == push_front(s.b2, lru_key)
                  s1 == [s EXCEPT !.t2 = Tail(@),
                                  !.t2_map = map_erase(@, lru_key),
                                  !.b2 = nb2,
                                  !.b2_map = map_set(@, lru_key, begin(nb2))]
              IN  IF Len(s1.b2) > s1.capacity
                  THEN LET ghost_key == back(s1.b2)
                       IN  [s1 EXCEPT !.b2 = pop_back(@),
                                      !.b2_map = map_erase(@, ghost_key)]
                  ELSE s1

\* replace taking T1's tail whenever |T1| >= p, whatever list the key is from
replace_at_target(s, in_b2) ==
    IF s.t1 # <<>> /\ Len(s.t1) >= s.p
    THEN LET lru_key == back(s.t1)
             nb1 == push_front(s.b1, lru_key)
         IN  [s EXCEPT !.t1 = pop_back(@),
                       !.t1_map = map_erase(@, lru_key),
                       !.b1 = nb1,
                       !.b1_map = map_set(@, lru_key, begin(nb1))]
    ELSE IF s.t2 = <<>>
         THEN [s EXCEPT !.fault = "back of empty t2"]
         ELSE LET lru_key == back(s.t2)
                  nb2 == push_front(s.b2, lru_key)
                  s1 == [s EXCEPT !.t2 = pop_back(@),
                                  !.t2_map = map_erase(@, lru_key),
                                  !.b2 = nb2,
                                  !.b2_map = map_set(@, lru_key, begin(nb2))]
              IN  IF Len(s1.b2) > s1.capacity
                  THEN LET ghost_key == back(s1.b2)
                       IN  [s1 EXCEPT !.b2 = pop_back(@),
                                      !.b2_map = map_erase(@, ghost_key)]
                  ELSE s1

\* replace recording the tail of T2 in B1 instead of B2
replace_to_b1(s, in_b2) ==
    IF s.t1 # <<>> /\ (Len(s.t1) > s.p \/ (in_b2 /\ Len(s.t1) = s.p))
    THEN LET lru_key == back(s.t1)
             nb1 == push_front(s.b1, lru_key)
         IN  [s EXCEPT !.t1 = pop_back(@),
                       !.t1_map = map_erase(@, lru_key),
                       !.b1 = nb1,
                       !.b1_map = map_set(@, lru_key, begin(nb1))]
    ELSE IF s.t2 = <<>>
         THEN [s EXCEPT !.fault = "back of empty t2"]
         ELSE LET lru_key == back(s.t2)
                  nb1 == push_front(s.b1, lru_key)
              IN  [s EXCEPT !.t2 = pop_back(@),
                            !.t2_map = map_erase(@, lru_key),
                            !.b1 = nb1,
                            !.b1_map = map_set(@, lru_key, begin(nb1))]

replace(s, in_b2) ==
    IF s.t1 # <<>> /\ (Len(s.t1) > s.p \/ (in_b2 /\ Len(s.t1) = s.p))
    THEN LET lru_key == back(s.t1)
             nb1 == push_front(s.b1, lru_key)
         IN  [s EXCEPT !.t1 = pop_back(@),
                       !.t1_map = map_erase(@, lru_key),
                       !.b1 = nb1,
                       !.b1_map = map_set(@, lru_key, begin(nb1))]
    ELSE IF s.t2 = <<>>
         THEN [s EXCEPT !.fault = "back of empty t2"]
         ELSE LET lru_key == back(s.t2)
                  nb2 == push_front(s.b2, lru_key)
                  s1 == [s EXCEPT !.t2 = pop_back(@),
                                  !.t2_map = map_erase(@, lru_key),
                                  !.b2 = nb2,
                                  !.b2_map = map_set(@, lru_key, begin(nb2))]
              IN  IF Len(s1.b2) > s1.capacity
                  THEN LET ghost_key == back(s1.b2)
                       IN  [s1 EXCEPT !.b2 = pop_back(@),
                                      !.b2_map = map_erase(@, ghost_key)]
                  ELSE s1

\* std::max(1.0, double(x) / double(std::max(size_t(1), y))) as the
\* fraction <<numerator, denominator>>
Delta(x, y) == IF x >= Max(1, y) THEN <<x, Max(1, y)>> ELSE <<1, 1>>

\* GrowP adding 1 whatever the sizes of B1 and B2
GrowP_by_one(s) == Min(s.capacity, s.p + 1)

\* static_cast<size_t>(p + delta): the double is truncated
GrowP(s) ==
    LET delta == Delta(Len(s.b2), Len(s.b1))
    IN  Min(s.capacity, (s.p * delta[2] + delta[1]) \div delta[2])

\* ShrinkP without the test p >= delta: the difference goes below zero
ShrinkP_unguarded(s) ==
    LET delta == Delta(Len(s.b1), Len(s.b2))
    IN  (s.p * delta[2] - delta[1]) \div delta[2]

\* ShrinkP adding delta as case 3 does, instead of subtracting it
ShrinkP_added(s) ==
    LET delta == Delta(Len(s.b1), Len(s.b2))
    IN  Min(s.capacity, (s.p * delta[2] + delta[1]) \div delta[2])

\* static_cast<size_t>(p >= delta ? p - delta : 0)
ShrinkP(s) ==
    LET delta == Delta(Len(s.b1), Len(s.b2))
    IN  Max(0, IF s.p * delta[2] >= delta[1]
               THEN (s.p * delta[2] - delta[1]) \div delta[2]
               ELSE 0)

\* t2.push_front(key); t2_map[key] = {value, t2.begin()};
IntoT2(s, key, value) ==
    LET nt2 == push_front(s.t2, key)
    IN  [s EXCEPT !.t2 = nt2,
                  !.t2_map = map_set(@, key, Entry(value, begin(nt2)))]

\* case 1 appending the key at the tail of T2 instead of the front
put_case1_back(s, key, value) ==
    [s EXCEPT !.t1 = erase(@, s.t1_map[key].second),
              !.t1_map = map_erase(@, key),
              !.t2 = Append(@, key),
              !.t2_map = map_set(@, key, Entry(value, key))]

put_case1(s, key, value) ==
    IF ~InList(s.t1, s.t1_map[key].second)
    THEN [s EXCEPT !.fault = "erase of invalid iterator in t1"]
    ELSE IntoT2([s EXCEPT !.t1 = erase(@, s.t1_map[key].second),
                          !.t1_map = map_erase(@, key)], key, value)

\* case 2 storing the value without moving the key to the front of T2
put_case2_inplace(s, key, value) ==
    [s EXCEPT !.t2_map = map_set(@, key, Entry(value, s.t2_map[key].second))]

put_case2(s, key, value) ==
    IF ~InList(s.t2, s.t2_map[key].second)
    THEN [s EXCEPT !.fault = "erase of invalid iterator in t2"]
    ELSE IntoT2([s EXCEPT !.t2 = erase(@, s.t2_map[key].second)], key, value)

\* case 3 without b1.erase(b1_map[key]); b1_map.erase(key);
put_case3_keepghost(s, key, value) ==
    LET s1 == replace([s EXCEPT !.p = GrowP(s)], FALSE)
    IN  IF s1.fault # "none" THEN s1 ELSE IntoT2(s1, key, value)

put_case3(s, key, value) ==
    LET s1 == replace([s EXCEPT !.p = GrowP(s)], FALSE)
        s2 == [s1 EXCEPT !.b1_map = map_index(@, key, Singular)]
    IN  IF s1.fault # "none" THEN s1
        ELSE IF ~InList(s2.b1, s2.b1_map[key])
        THEN [s2 EXCEPT !.fault = "erase of invalid iterator in b1"]
        ELSE IntoT2([s2 EXCEPT !.b1 = erase(@, s2.b1_map[key]),
                               !.b1_map = map_erase(@, key)], key, value)

put_case4(s, key, value) ==
    LET s1 == replace([s EXCEPT !.p = ShrinkP(s)], TRUE)
        s2 == [s1 EXCEPT !.b2_map = map_index(@, key, Singular)]
    IN  IF s1.fault # "none" THEN s1
        ELSE IF ~InList(s2.b2, s2.b2_map[key])
        THEN [s2 EXCEPT !.fault = "erase of invalid iterator in b2"]
        ELSE IntoT2([s2 EXCEPT !.b2 = erase(@, s2.b2_map[key]),
                               !.b2_map = map_erase(@, key)], key, value)

\* the branch t1.size() + b1.size() >= capacity without the trimming of B1
put_case5_recency_keepb1(s) ==
    IF Len(s.t1) < s.capacity
    THEN replace(s, FALSE)
    ELSE IF s.t1 = <<>>
         THEN [s EXCEPT !.fault = "back of empty t1"]
         ELSE LET lru_key == back(s.t1)
              IN  [s EXCEPT !.t1 = pop_back(@),
                            !.t1_map = map_erase(@, lru_key)]

\* the branch t1.size() + b1.size() >= capacity calling replace even when T1
\* is full, so that the tail of T1 goes to B1
put_case5_recency_replace(s) ==
    replace(IF s.b1 # <<>>
            THEN LET lru_key == back(s.b1)
                 IN  [s EXCEPT !.b1 = pop_back(@),
                               !.b1_map = map_erase(@, lru_key)]
            ELSE s, FALSE)

\* "Case 5: Super Cache miss", the branch t1.size() + b1.size() >= capacity
put_case5_recency(s) ==
    IF Len(s.t1) < s.capacity
    THEN replace(IF s.b1 # <<>>
                 THEN LET lru_key == back(s.b1)
                      IN  [s EXCEPT !.b1 = pop_back(@),
                                    !.b1_map = map_erase(@, lru_key)]
                 ELSE s, FALSE)
    ELSE IF s.t1 = <<>>
         THEN [s EXCEPT !.fault = "back of empty t1"]
         ELSE LET lru_key == back(s.t1)
              IN  [s EXCEPT !.t1 = pop_back(@),
                            !.t1_map = map_erase(@, lru_key)]

\* the branch t1.size() + t2.size() + b1.size() + b2.size() >= capacity
put_case5_history(s) ==
    replace(IF Len(s.t1) + Len(s.t2) + Len(s.b1) + Len(s.b2) = 2 * s.capacity
               /\ s.b2 # <<>>
            THEN LET lru_key == back(s.b2)
                 IN  [s EXCEPT !.b2 = pop_back(@),
                               !.b2_map = map_erase(@, lru_key)]
            ELSE s, FALSE)

\* case 5 without the else-if branch: no eviction while T1 and B1 are small
put_case5_evict_recency_only(s) ==
    IF Len(s.t1) + Len(s.b1) >= s.capacity
    THEN put_case5_recency(s)
    ELSE s

\* case 5 calling replace even while the four lists hold less than capacity
put_case5_evict_always(s) ==
    IF Len(s.t1) + Len(s.b1) >= s.capacity
    THEN put_case5_recency(s)
    ELSE put_case5_history(s)

\* case 5 up to the insertion into T1
put_case5_evict(s) ==
    IF Len(s.t1) + Len(s.b1) >= s.capacity
    THEN put_case5_recency(s)
    ELSE IF Len(s.t1) + Len(s.t2) + Len(s.b1) + Len(s.b2) >= s.capacity
         THEN put_case5_history(s)
         ELSE s

put_case5(s, key, value) ==
    LET s1 == put_case5_evict(s)
        nt1 == push_front(s1.t1, key)
    IN  IF s1.fault # "none" THEN s1
        ELSE [s1 EXCEPT !.t1 = nt1,
                        !.t1_map = map_set(@, key, Entry(value, begin(nt1)))]

ARCache_put(s, key, value) ==
    IF count(s.t1_map, key) = 1 THEN put_case1(s, key, value)
    ELSE IF count(s.t2_map, key) = 1 THEN put_case2(s, key, value)
    ELSE IF count(s.b1_map, key) = 1 THEN put_case3(s, key, value)
    ELSE IF count(s.b2_map, key) = 1 THEN put_case4(s, key, value)
    ELSE put_case5(s, key, value)

\* get reading t1_map[key] without the count() test: operator[] inserts
ARCache_get_index(s, key) ==
    IF count(s.t1_map, key) = 1
    THEN [state |-> ARCache_put(s, key, s.t1_map[key].first),
          found |-> TRUE, value |-> s.t1_map[key].first]
    ELSE IF count(s.t2_map, key) = 1
    THEN [state |-> ARCache_put(s, key, s.t2_map[key].first),
          found |-> TRUE, value |-> s.t2_map[key].first]
    ELSE [state |-> [s EXCEPT !.t1_map =
                         map_index(@, key, Entry(NoValue, Singular))],
          found |-> FALSE, value |-> NoValue]

\* the returned record: the state, the bool returned and the out-parameter
ARCache_get(s, key) ==
    IF count(s.t1_map, key) = 1
    THEN [state |-> ARCache_put(s, key, s.t1_map[key].first),
          found |-> TRUE, value |-> s.t1_map[key].first]
    ELSE IF count(s.t2_map, key) = 1
    THEN [state |-> ARCache_put(s, key, s.t2_map[key].first),
          found |-> TRUE, value |-> s.t2_map[key].first]
    ELSE [state |-> s, found |-> FALSE, value |-> NoValue]

ARCache_size(s) == Len(s.t1) + Len(s.t2)

\* clear without p = 0
ARCache_clear_keep_p(s) ==
    [s EXCEPT !.t1 = <<>>, !.t2 = <<>>, !.b1 = <<>>, !.b2 = <<>>,
              !.t1_map = EmptyMap, !.t2_map = EmptyMap,
              !.b1_map = EmptyMap, !.b2_map = EmptyMap]

ARCache_clear(s) ==
    [s EXCEPT !.t1 = <<>>, !.t2 = <<>>, !.b1 = <<>>, !.b2 = <<>>,
              !.t1_map = EmptyMap, !.t2_map = EmptyMap,
              !.b1_map = EmptyMap, !.b2_map = EmptyMap,
              !.p = 0]

\* ------------------------------------------------------------ LRUCache
\* cache_list holds the pairs <<key, value>>; an iterator into it is
\* modelled by the key of the pair it points to.
LRUCache_ctor(size) ==
    [capacity |-> size, cache_list |-> <<>>, cache_map |-> EmptyMap,
     fault |-> "none"]

LruState ==
    [capacity |-> capacity, cache_list |-> cache_list,
     cache_map |-> cache_map, fault |-> fault]

Pair(k, v) == [first |-> k, second |-> v]
PairAt(l, it) == CHOOSE i \in 1..Len(l) : l[i].first = it
InPairList(l, it) == \E i \in 1..Len(l) : l[i].first = it
erase_pair(l, it) == SelectSeq(l, LAMBDA x : x.first # it)

LRUCache_put(s, key, value) ==
    LET s1 == IF key \in DOMAIN s.cache_map
              THEN IF ~InPairList(s.cache_list, s.cache_map[key])
                   THEN [s EXCEPT !.fault =
                                  "erase of invalid iterator in cache_list"]
                   ELSE [s EXCEPT !.cache_list = erase_pair(@, s.cache_map[key]),
                                  !.cache_map = map_erase(@, key)]
              ELSE IF Len(s.cache_list) >= s.capacity
              THEN IF s.cache_list = <<>>
                   THEN [s EXCEPT !.fault = "back of empty cache_list"]
                   ELSE [s EXCEPT !.cache_map =
                                      map_erase(@, back(s.cache_list).first),
                                  !.cache_list = pop_back(@)]
              ELSE s
        nl == push_front(s1.cache_list, Pair(key, value))
    IN  IF s1.fault # "none" THEN s1
        ELSE [s1 EXCEPT !.cache_list = nl,
                        !.cache_map = map_set(@, key, begin(nl).first)]

\* get returning the value without cache_list.splice: the key is not moved
LRUCache_get_nosplice(s, key) ==
    IF key \notin DOMAIN s.cache_map
    THEN [state |-> s, found |-> FALSE, value |-> NoValue]
    ELSE IF ~InPairList(s.cache_list, s.cache_map[key])
    THEN [state |-> [s EXCEPT !.fault =
                              "read through invalid iterator in cache_list"],
          found |-> FALSE, value |-> NoValue]
    ELSE [state |-> s, found |-> TRUE,
          value |-> s.cache_list[PairAt(s.cache_list, s.cache_map[key])].second]

LRUCache_get(s, key) ==
    IF key \notin DOMAIN s.cache_map
    THEN [state |-> s, found |-> FALSE, value |-> NoValue]
    ELSE IF ~InPairList(s.cache_list, s.cache_map[key])
    THEN [state |-> [s EXCEPT !.fault =
                              "read through invalid iterator in cache_list"],
          found |-> FALSE, value |-> NoValue]
    ELSE LET it == s.cache_map[key]
             node == s.cache_list[PairAt(s.cache_list, it)]
         IN  [state |-> [s EXCEPT !.cache_list =
                                  push_front(erase_pair(@, it), node)],
              found |-> TRUE, value |-> node.second]

LRUCache_size(s) == Len(s.cache_list)

LRUCache_clear(s) ==
    [s EXCEPT !.cache_list = <<>>, !.cache_map = EmptyMap]

\* ------------------------------------------------------------ LFUCache
LFUCache_ctor(size) ==
    [capacity |-> size, minFreq |-> 0, keyToVal |-> EmptyMap,
     keyToIter |-> EmptyMap, freqToKeys |-> EmptyMap, fault |-> "none"]

LfuState ==
    [capacity |-> capacity, minFreq |-> minFreq, keyToVal |-> keyToVal,
     keyToIter |-> keyToIter, freqToKeys |-> freqToKeys, fault |-> fault]

\* increment without "if (minFreq == freq) minFreq++"
increment_keep_min(s, key) ==
    LET freq == s.keyToVal[key].second
        iter == s.keyToIter[key]
        f0 == map_index(s.freqToKeys, freq, <<>>)
        f1 == map_set(f0, freq, erase(f0[freq], iter))
        f2 == IF f1[freq] = <<>> THEN map_erase(f1, freq) ELSE f1
        f3 == map_index(f2, freq + 1, <<>>)
        nl == push_front(f3[freq + 1], key)
    IN  [s EXCEPT !.freqToKeys = map_set(f3, freq + 1, nl),
                  !.keyToIter = map_set(@, key, begin(nl)),
                  !.keyToVal = map_set(@, key,
                                       Entry(s.keyToVal[key].first, freq + 1))]

\* key is in keyToVal and keyToIter whenever increment is called
increment(s, key) ==
    LET freq == s.keyToVal[key].second
        iter == s.keyToIter[key]
        f0 == map_index(s.freqToKeys, freq, <<>>)
        f1 == map_set(f0, freq, erase(f0[freq], iter))
        gone == f1[freq] = <<>>
        f2 == IF gone THEN map_erase(f1, freq) ELSE f1
        mf == IF gone /\ s.minFreq = freq THEN s.minFreq + 1 ELSE s.minFreq
        f3 == map_index(f2, freq + 1, <<>>)
        nl == push_front(f3[freq + 1], key)
    IN  IF ~InList(f0[freq], iter)
        THEN [s EXCEPT !.freqToKeys = f0,
                       !.fault = "erase of invalid iterator in freqToKeys"]
        ELSE [s EXCEPT !.freqToKeys = map_set(f3, freq + 1, nl),
                       !.minFreq = mf,
                       !.keyToIter = map_set(@, key, begin(nl)),
                       !.keyToVal = map_set(@, key,
                                            Entry(s.keyToVal[key].first,
                                                  freq + 1))]

\* the eviction taking the front of freqToKeys[minFreq], not its back
LFUCache_evict_front(s) ==
    LET f0 == map_index(s.freqToKeys, s.minFreq, <<>>)
        evictKey == begin(f0[s.minFreq])
        f1 == map_set(f0, s.minFreq, Tail(f0[s.minFreq]))
        f2 == IF f1[s.minFreq] = <<>> THEN map_erase(f1, s.minFreq) ELSE f1
    IN  IF f0[s.minFreq] = <<>>
        THEN [s EXCEPT !.freqToKeys = f0,
                       !.fault = "back of empty freqToKeys[minFreq]"]
        ELSE [s EXCEPT !.freqToKeys = f2,
                       !.keyToVal = map_erase(@, evictKey),
                       !.keyToIter = map_erase(@, evictKey)]

\* the eviction of LFUCache::put, taken when keyToVal.size() >= capacity
LFUCache_evict(s) ==
    LET f0 == map_index(s.freqToKeys, s.minFreq, <<>>)
        evictKey == back(f0[s.minFreq])
        f1 == map_set(f0, s.minFreq, pop_back(f0[s.minFreq]))
        f2 == IF f1[s.minFreq] = <<>> THEN map_erase(f1, s.minFreq) ELSE f1
    IN  IF f0[s.minFreq] = <<>>
        THEN [s EXCEPT !.freqToKeys = f0,
                       !.fault = "back of empty freqToKeys[minFreq]"]
        ELSE [s EXCEPT !.freqToKeys = f2,
                       !.keyToVal = map_erase(@, evictKey),
                       !.keyToIter = map_erase(@, evictKey)]

LFUCache_put(s, key, value) ==
    IF s.capacity = 0 THEN s
    ELSE IF count(s.keyToVal, key) = 1
    THEN increment([s EXCEPT !.keyToVal =
                        map_set(@, key, Entry(value, s.keyToVal[key].second))],
                   key)
    ELSE LET s1 == IF Cardinality(DOMAIN s.keyToVal) >= s.capacity
                   THEN LFUCache_evict(s) ELSE s
             f0 == map_index(s1.freqToKeys, 1, <<>>)
             nl == push_front(f0[1], key)
         IN  IF s1.fault # "none" THEN s1
             ELSE [s1 EXCEPT !.keyToVal = map_set(@, key, Entry(value, 1)),
                             !.freqToKeys = map_set(f0, 1, nl),
                             !.keyToIter = map_set(@, key, begin(nl)),
                             !.minFreq = 1]

LFUCache_get(s, key) ==
    IF count(s.keyToVal, key) = 0
    THEN [state |-> s, found |-> FALSE, value |-> NoValue]
    ELSE [state |-> increment(s, key), found |-> TRUE,
          value |-> s.keyToVal[key].first]

LFUCache_size(s) == Cardinality(DOMAIN s.keyToVal)

LFUCache_clear(s) ==
    [s EXCEPT !.keyToVal = EmptyMap, !.keyToIter = EmptyMap,
              !.freqToKeys = EmptyMap, !.minFreq = 0]

\* ---------------------------------------------------- ARCache of arc.hpp
\* The second ARCache keeps one index, cache, for T1 and T2 and one, ghost,
\* for B1 and B2.  Its ghost lists can hold a key twice and its ghost index
\* can miss a key of B1 or B2 or keep the key of a node that is gone, so an
\* iterator is modelled by the list its node was pushed on and whether the
\* node is still there.  Every push_front of a key is followed by storing
\* the iterator of the pushed node under that key, so the node an iterator
\* of key k stands for is the front-most node of k in its list.
Node(list, live) == [list |-> list, live |-> live]

\* the list without its front-most node of key k
erase_node(l, k) ==
    LET i == CHOOSE i \in 1..Len(l) :
                 l[i] = k /\ \A j \in 1..(i - 1) : l[j] # k
    IN  SubSeq(l, 1, i - 1) \o SubSeq(l, i + 1, Len(l))

\* it, stored under key k, is an iterator to a node of the list l named name
ValidIn(l, name, k, it) == it.list = name /\ it.live /\ InList(l, k)

arc_ctor(size) ==
    [capacity |-> size, p |-> 0,
     t1 |-> <<>>, t2 |-> <<>>, b1 |-> <<>>, b2 |-> <<>>,
     cache |-> EmptyMap, ghost |-> EmptyMap,
     fault |-> "none", undefined |-> "none"]

\* undefined: the read of back() of an empty list the call went through
ArcHppState ==
    [capacity |-> capacity, p |-> p,
     t1 |-> t1, t2 |-> t2, b1 |-> b1, b2 |-> b2,
     cache |-> cache, ghost |-> ghost,
     fault |-> fault, undefined |-> "none"]

\* the ghost index after the tail node of the ghost list l, named name, is
\* destroyed: an iterator to that node stays in the index, dangling
ghost_after_pop(g, l, name) ==
    LET k == back(l)
    IN  IF k \in DOMAIN g /\ g[k].list = name /\ g[k].live
           /\ Cardinality({i \in 1..Len(l) : l[i] = k}) = 1
        THEN map_set(g, k, Node(name, FALSE))
        ELSE g

arc_replace_lru(s) ==
    IF s.t1 # <<>>
       /\ \/ back(s.t1) \in DOMAIN s.ghost /\ InList(s.b2, back(s.t1))
          \/ Len(s.t1) > s.p
    THEN LET lru == back(s.t1)
         IN  [s EXCEPT !.t1 = pop_back(@),
                       !.b1 = push_front(@, lru),
                       !.ghost = map_set(@, lru, Node("b1", TRUE)),
                       !.cache = map_erase(@, lru)]
    ELSE IF s.t2 = <<>>
         THEN [s EXCEPT !.fault = "pop_back of empty t2"]
         ELSE LET lru == back(s.t2)
              IN  [s EXCEPT !.t2 = pop_back(@),
                            !.b2 = push_front(@, lru),
                            !.ghost = map_set(@, lru, Node("b2", TRUE)),
                            !.cache = map_erase(@, lru)]

\* b1.pop_back(); ghost.erase(b1.back());  junk is what back() yields when
\* the pop has emptied the list
arc_trim_b1(s, junk) ==
    IF s.b1 = <<>> THEN [s EXCEPT !.fault = "pop_back of empty b1"]
    ELSE LET nb1 == pop_back(s.b1)
             g == ghost_after_pop(s.ghost, s.b1, "b1")
         IN  IF nb1 = <<>>
             THEN [s EXCEPT !.b1 = nb1, !.ghost = map_erase(g, junk),
                            !.undefined = "back of empty b1"]
             ELSE [s EXCEPT !.b1 = nb1, !.ghost = map_erase(g, back(nb1))]

\* b2.pop_back(); ghost.erase(b2.back());
arc_trim_b2(s, junk) ==
    IF s.b2 = <<>> THEN [s EXCEPT !.fault = "pop_back of empty b2"]
    ELSE LET nb2 == pop_back(s.b2)
             g == ghost_after_pop(s.ghost, s.b2, "b2")
         IN  IF nb2 = <<>>
             THEN [s EXCEPT !.b2 = nb2, !.ghost = map_erase(g, junk),
                            !.undefined = "back of empty b2"]
             ELSE [s EXCEPT !.b2 = nb2, !.ghost = map_erase(g, back(nb2))]

arc_replace(s, key, junk) ==
    LET in_b1 == key \in DOMAIN s.ghost /\ InList(s.b1, key)
        in_b2 == key \in DOMAIN s.ghost /\ InList(s.b2, key)
        s0 == [s EXCEPT !.p = IF in_b1 THEN Min(s.p + 1, s.capacity)
                              ELSE IF in_b2 THEN Max(s.p - 1, 0)
                              ELSE s.p]
    IN  IF Len(s0.t1) + Len(s0.b1) >= s0.capacity
        THEN IF Len(s0.t1) < s0.capacity
             THEN LET s1 == arc_trim_b1(s0, junk)
                  IN  IF s1.fault # "none" THEN s1 ELSE arc_replace_lru(s1)
             ELSE IF s0.t1 = <<>>
                  THEN [s0 EXCEPT !.fault = "pop_back of empty t1"]
                  ELSE LET lru == back(s0.t1)
                       IN  [s0 EXCEPT !.t1 = pop_back(@),
                                      !.cache = map_erase(@, lru)]
        ELSE IF Len(s0.t1) + Len(s0.t2) + Len(s0.b1) + Len(s0.b2)
                    >= 2 * s0.capacity
             THEN arc_trim_b2(s0, junk)
             ELSE s0

\* "页面访问处理" of get and of put: the key, in cache, moves to the front of T2
arc_touch(s, key) ==
    LET it == s.cache[key].second
    IN  IF InList(s.t1, key)
        THEN IF ~ValidIn(s.t1, "t1", key, it)
             THEN [s EXCEPT !.fault = "erase of invalid iterator in t1"]
             ELSE [s EXCEPT !.t1 = erase_node(@, key),
                            !.t2 = push_front(@, key),
                            !.cache = map_set(@, key,
                                Entry(s.cache[key].first, Node("t2", TRUE)))]
        ELSE IF ~ValidIn(s.t2, "t2", key, it)
             THEN [s EXCEPT !.fault = "erase of invalid iterator in t2"]
             ELSE [s EXCEPT !.t2 = push_front(erase_node(@, key), key),
                            !.cache = map_set(@, key,
                                Entry(s.cache[key].first, Node("t2", TRUE)))]

arc_get(s, key) ==
    IF key \notin DOMAIN s.cache
    THEN [state |-> s, found |-> FALSE, value |-> NoValue]
    ELSE [state |-> arc_touch(s, key), found |-> TRUE,
          value |-> s.cache[key].first]

\* put of a key that is not in cache, after the call of replace
arc_insert(s, key, value) ==
    IF key \in DOMAIN s.ghost
    THEN IF InList(s.b1, key)
         THEN IF ~ValidIn(s.b1, "b1", key, s.ghost[key])
              THEN [s EXCEPT !.fault = "erase of invalid iterator in b1"]
              ELSE [s EXCEPT !.b1 = erase_node(@, key),
                             !.ghost = map_erase(@, key),
                             !.t2 = push_front(@, key),
                             !.cache = map_set(@, key,
                                 Entry(value, Node("t2", TRUE)))]
         ELSE IF ~ValidIn(s.b2, "b2", key, s.ghost[key])
              THEN [s EXCEPT !.fault = "erase of invalid iterator in b2"]
              ELSE [s EXCEPT !.b2 = erase_node(@, key),
                             !.ghost = map_erase(@, key),
                             !.t2 = push_front(@, key),
                             !.cache = map_set(@, key,
                                 Entry(value, Node("t2", TRUE)))]
    ELSE [s EXCEPT !.t1 = push_front(@, key),
                   !.cache = map_set(@, key, Entry(value, Node("t1", TRUE)))]

arc_put(s, key, value, junk) ==
    IF key \in DOMAIN s.cache
    THEN arc_touch([s EXCEPT !.cache = map_set(@, key,
                        Entry(value, s.cache[key].second))], key)
    ELSE LET s1 == IF Cardinality(DOMAIN s.cache) >= s.capacity
                   THEN arc_replace(s, key, junk) ELSE s
         IN  IF s1.fault # "none" THEN s1 ELSE arc_insert(s1, key, value)

arc_size(s) == Cardinality(DOMAIN s.cache)

arc_empty(s) == s.cache = EmptyMap

arc_clear(s) ==
    [s EXCEPT !.t1 = <<>>, !.t2 = <<>>, !.b1 = <<>>, !.b2 = <<>>,
              !.cache = EmptyMap, !.ghost = EmptyMap, !.p = 0]

\* ------------------------------------------------------------- actions
\* where: the list that held the key when the call was made; p0: p then
Call(op, key, value, ret, out, where, p0) ==
    [op |-> op, key |-> key, value |-> value, ret |-> ret, out |-> out,
     where |-> where, p0 |-> p0]

ArcWhere(key) ==
    IF InList(t1, key) THEN "t1"
    ELSE IF InList(t2, key) THEN "t2"
    ELSE IF InList(b1, key) THEN "b1"
    ELSE IF InList(b2, key) THEN "b2"
    ELSE "none"

\* The scenario of the capacity-3 cache: put 1, 2, 3; get 1, 2, 3; put 4;
\* get 1; get 4.
Scenario3 ==
    [capacity |-> 3,
     calls |-> << <<"put", 1>>, <<"put", 2>>, <<"put", 3>>,
                  <<"get", 1>>, <<"get", 2>>, <<"get", 3>>,
                  <<"put", 4>>, <<"get", 1>>, <<"get", 4>> >>]

\* The scenario of the capacity-2 cache: put 1, 2, 3; put 1.
Scenario2 ==
    [capacity |-> 2,
     calls |-> << <<"put", 1>>, <<"put", 2>>, <<"put", 3>>, <<"put", 1>> >>]

Scenarios == {Scenario3, Scenario2}

ScenarioKeys ==
    UNION {{sc.calls[i][2] : i \in 1..Len(sc.calls)} : sc \in Scenarios}

Untracked == << <<"off", 0, NoValue>> >>

\* tr is the beginning of a scenario of this capacity (values are free)
OnScript(tr) ==
    \E sc \in Scenarios :
        /\ sc.capacity = capacity
        /\ Len(tr) <= Len(sc.calls)
        /\ \A i \in 1..Len(tr) :
               tr[i][1] = sc.calls[i][1] /\ tr[i][2] = sc.calls[i][2]

Track(op, key, value) ==
    LET tr == Append(trace, <<op, key, value>>)
    IN  IF trace # Untracked /\ OnScript(tr) THEN tr ELSE Untracked

\* the touch order of the keys in resident
Among(order, resident) == SelectSeq(order, LAMBDA k : k \in resident)

\* a touch of key (a put, or a get that hit): key becomes the latest touched
Touch(order, key) == push_front(erase(order, key), key)

\* the touch counts of the keys in resident after a touch of key: 1 for a
\* key just inserted, one more for a key that was resident
Used(n, key, resident) ==
    [k \in resident |->
        IF k # key THEN n[k]
        ELSE IF key \in DOMAIN n THEN n[key] + 1 ELSE 1]

SetArc(s) ==
    /\ p' = s.p
    /\ t1' = s.t1 /\ t2' = s.t2 /\ b1' = s.b1 /\ b2' = s.b2
    /\ t1_map' = s.t1_map /\ t2_map' = s.t2_map
    /\ b1_map' = s.b1_map /\ b2_map' = s.b2_map
    /\ fault' = s.fault

SetLru(s) ==
    /\ cache_list' = s.cache_list /\ cache_map' = s.cache_map
    /\ fault' = s.fault

SetLfu(s) ==
    /\ minFreq' = s.minFreq /\ keyToVal' = s.keyToVal
    /\ keyToIter' = s.keyToIter /\ freqToKeys' = s.freqToKeys
    /\ fault' = s.fault

\* what a call that reached state s and, for get, found the key, reports
Returned(s, found) ==
    IF s.fault # "none" THEN "fault"
    ELSE IF found THEN "hit" ELSE "miss"

Init ==
    /\ impl \in {"ARCache", "LRUCache", "LFUCache"}
    /\ capacity \in Capacities
    /\ p = 0
    /\ t1 = <<>> /\ t2 = <<>> /\ b1 = <<>> /\ b2 = <<>>
    /\ t1_map = EmptyMap /\ t2_map = EmptyMap
    /\ b1_map = EmptyMap /\ b2_map = EmptyMap
    /\ cache_list = <<>> /\ cache_map = EmptyMap
    /\ minFreq = 0
    /\ keyToVal = EmptyMap /\ keyToIter = EmptyMap /\ freqToKeys = EmptyMap
    /\ fault = "none"
    /\ last = Call("new", 0, NoValue, "void", NoValue, "none", 0)
    /\ trace = Untracked
    /\ cache = EmptyMap /\ ghost = EmptyMap
    /\ recency = <<>> /\ uses = EmptyMap

\* Each action binds the state the call ends in (s, or r.state for get) once,
\* as the one element of a singleton set, and assigns the variables from it.
ARCachePut(key, value) ==
    /\ impl = "ARCache" /\ fault = "none"
    /\ \E s \in {ARCache_put(ArcState, key, value)} :
           /\ SetArc(s)
           /\ last' = Call("put", key, value,
                           IF s.fault = "none" THEN "void" ELSE "fault",
                           NoValue, ArcWhere(key), p)
    /\ trace' = Track("put", key, value)
    /\ UNCHANGED <<impl, capacity, hppVars, lruVars, lfuVars, histVars>>

ARCacheGet(key) ==
    /\ impl = "ARCache" /\ fault = "none"
    /\ \E r \in {ARCache_get(ArcState, key)} :
           /\ SetArc(r.state)
           /\ last' = Call("get", key, NoValue, Returned(r.state, r.found),
                           IF r.state.fault # "none" THEN NoValue
                           ELSE r.value, ArcWhere(key), p)
    /\ trace' = Track("get", key, NoValue)
    /\ UNCHANGED <<impl, capacity, hppVars, lruVars, lfuVars, histVars>>

ARCacheClear ==
    /\ impl = "ARCache" /\ fault = "none"
    /\ SetArc(ARCache_clear(ArcState))
    /\ last' = Call("clear", 0, NoValue, "void", NoValue, "none", p)
    /\ trace' = Track("clear", 0, NoValue)
    /\ UNCHANGED <<impl, capacity, hppVars, lruVars, lfuVars, histVars>>

LRUCachePut(key, value) ==
    /\ impl = "LRUCache" /\ fault = "none"
    /\ \E s \in {LRUCache_put(LruState, key, value)} :
           /\ SetLru(s)
           /\ last' = Call("put", key, value,
                           IF s.fault = "none" THEN "void" ELSE "fault",
                           NoValue,
                           IF key \in DOMAIN cache_map THEN "resident" ELSE "none",
                           0)
    /\ recency' = IF fault' # "none" THEN recency
                  ELSE IF key \in DOMAIN cache_map'
                  THEN Touch(Among(recency, DOMAIN cache_map), key)
                  ELSE Among(recency, DOMAIN cache_map)
    /\ trace' = Track("put", key, value)
    /\ UNCHANGED <<impl, capacity, hppVars, arcVars, lfuVars, uses>>

LRUCacheGet(key) ==
    /\ impl = "LRUCache" /\ fault = "none"
    /\ \E r \in {LRUCache_get(LruState, key)} :
           /\ SetLru(r.state)
           /\ last' = Call("get", key, NoValue, Returned(r.state, r.found),
                           IF r.state.fault # "none" THEN NoValue
                           ELSE r.value,
                           IF key \in DOMAIN cache_map THEN "resident" ELSE "none",
                           0)
    /\ recency' = IF last'.ret = "fault" THEN recency
                  ELSE IF last'.ret = "hit"
                  THEN Touch(Among(recency, DOMAIN cache_map), key)
                  ELSE Among(recency, DOMAIN cache_map)
    /\ trace' = Track("get", key, NoValue)
    /\ UNCHANGED <<impl, capacity, hppVars, arcVars, lfuVars, uses>>

LRUCacheClear ==
    /\ impl = "LRUCache" /\ fault = "none"
    /\ SetLru(LRUCache_clear(LruState))
    /\ last' = Call("clear", 0, NoValue, "void", NoValue, "none", 0)
    /\ trace' = Track("clear", 0, NoValue)
    /\ recency' = <<>>
    /\ UNCHANGED <<impl, capacity, hppVars, arcVars, lfuVars, uses>>

\* a call that touches a resident key is taken only below MaxFreq touches
LFUCachePut(key, value) ==
    /\ impl = "LFUCache" /\ fault = "none"
    /\ key \in DOMAIN keyToVal => keyToVal[key].second < MaxFreq
    /\ \E s \in {LFUCache_put(LfuState, key, value)} :
           /\ SetLfu(s)
           /\ last' = Call("put", key, value,
                           IF s.fault = "none" THEN "void" ELSE "fault",
                           NoValue,
                           IF key \in DOMAIN keyToVal THEN "resident" ELSE "none",
                           0)
    /\ recency' = IF fault' # "none" THEN recency
                  ELSE IF key \in DOMAIN keyToVal'
                  THEN Touch(Among(recency, DOMAIN keyToVal), key)
                  ELSE Among(recency, DOMAIN keyToVal)
    /\ uses' = IF fault' = "none"
               THEN Used(uses, key, DOMAIN keyToVal') ELSE uses
    /\ trace' = Track("put", key, value)
    /\ UNCHANGED <<impl, capacity, hppVars, arcVars, lruVars>>

LFUCacheGet(key) ==
    /\ impl = "LFUCache" /\ fault = "none"
    /\ key \in DOMAIN keyToVal => keyToVal[key].second < MaxFreq
    /\ \E r \in {LFUCache_get(LfuState, key)} :
           /\ SetLfu(r.state)
           /\ last' = Call("get", key, NoValue, Returned(r.state, r.found),
                           IF r.state.fault # "none" THEN NoValue
                           ELSE r.value,
                           IF key \in DOMAIN keyToVal THEN "resident" ELSE "none",
                           0)
    /\ recency' = IF last'.ret = "fault" THEN recency
                  ELSE IF last'.ret = "hit"
                  THEN Touch(Among(recency, DOMAIN keyToVal), key)
                  ELSE Among(recency, DOMAIN keyToVal)
    /\ uses' = IF last'.ret = "hit"
               THEN Used(uses, key, DOMAIN keyToVal') ELSE uses
    /\ trace' = Track("get", key, NoValue)
    /\ UNCHANGED <<impl, capacity, hppVars, arcVars, lruVars>>

LFUCacheClear ==
    /\ impl = "LFUCache" /\ fault = "none"
    /\ SetLfu(LFUCache_clear(LfuState))
    /\ last' = Call("clear", 0, NoValue, "void", NoValue, "none", 0)
    /\ trace' = Track("clear", 0, NoValue)
    /\ recency' = <<>> /\ uses' = EmptyMap
    /\ UNCHANGED <<impl, capacity, hppVars, arcVars, lruVars>>

Next ==
    \/ \E key \in Keys, value \in Values : ARCachePut(key, value)
    \/ \E key \in Keys : ARCacheGet(key)
    \/ ARCacheClear
    \/ \E key \in Keys, value \in Values : LRUCachePut(key, value)
    \/ \E key \in Keys : LRUCacheGet(key)
    \/ LRUCacheClear
    \/ \E key \in Keys, value \in Values : LFUCachePut(key, value)
    \/ \E key \in Keys : LFUCacheGet(key)
    \/ LFUCacheClear

Spec == Init /\ [][Next]_vars

\* The ARC engine driven with the scenarios' capacities and keys, the calls
\* followed in trace for as long as they are a scenario's.
InitScenario ==
    /\ impl = "ARCache"
    /\ capacity \in {sc.capacity : sc \in Scenarios}
    /\ p = 0
    /\ t1 = <<>> /\ t2 = <<>> /\ b1 = <<>> /\ b2 = <<>>
    /\ t1_map = EmptyMap /\ t2_map = EmptyMap
    /\ b1_map = EmptyMap /\ b2_map = EmptyMap
    /\ cache_list = <<>> /\ cache_map = EmptyMap
    /\ minFreq = 0
    /\ keyToVal = EmptyMap /\ keyToIter = EmptyMap /\ freqToKeys = EmptyMap
    /\ fault = "none"
    /\ last = Call("new", 0, NoValue, "void", NoValue, "none", 0)
    /\ trace = <<>>
    /\ cache = EmptyMap /\ ghost = EmptyMap
    /\ recency = <<>> /\ uses = EmptyMap

NextScenario ==
    \/ \E key \in ScenarioKeys, value \in Values : ARCachePut(key, value)
    \/ \E key \in ScenarioKeys : ARCacheGet(key)
    \/ ARCacheClear

SpecScenario == InitScenario /\ [][NextScenario]_vars

\* The ARCache of arc.hpp, which main.cpp uses.
SetArcHpp(s) ==
    /\ p' = s.p
    /\ t1' = s.t1 /\ t2' = s.t2 /\ b1' = s.b1 /\ b2' = s.b2
    /\ cache' = s.cache /\ ghost' = s.ghost
    /\ fault' = s.fault

\* what back() of an empty std::list<K> can yield: a key, or no key in use
Junk == Keys \cup {0}

\* what a call of put that reached state s reports
Completed(s) ==
    IF s.fault # "none" THEN "fault"
    ELSE IF s.undefined # "none" THEN "undefined" ELSE "void"

InitArcHpp ==
    /\ impl = "ARCache(arc.hpp)"
    /\ capacity \in Capacities
    /\ p = 0
    /\ t1 = <<>> /\ t2 = <<>> /\ b1 = <<>> /\ b2 = <<>>
    /\ t1_map = EmptyMap /\ t2_map = EmptyMap
    /\ b1_map = EmptyMap /\ b2_map = EmptyMap
    /\ cache_list = <<>> /\ cache_map = EmptyMap
    /\ minFreq = 0
    /\ keyToVal = EmptyMap /\ keyToIter = EmptyMap /\ freqToKeys = EmptyMap
    /\ fault = "none"
    /\ last = Call("new", 0, NoValue, "void", NoValue, "none", 0)
    /\ trace = Untracked
    /\ cache = EmptyMap /\ ghost = EmptyMap
    /\ recency = <<>> /\ uses = EmptyMap

ArcHppPut(key, value, junk) ==
    /\ impl = "ARCache(arc.hpp)" /\ fault = "none"
    /\ \E s \in {arc_put(ArcHppState, key, value, junk)} :
           /\ SetArcHpp(s)
           /\ last' = Call("put", key, value, Completed(s), NoValue,
                           ArcWhere(key), p)
    /\ UNCHANGED <<impl, capacity, t1_map, t2_map, b1_map, b2_map,
                   lruVars, lfuVars, trace, histVars>>

ArcHppGet(key) ==
    /\ impl = "ARCache(arc.hpp)" /\ fault = "none"
    /\ \E r \in {arc_get(ArcHppState, key)} :
           /\ SetArcHpp(r.state)
           /\ last' = Call("get", key, NoValue, Returned(r.state, r.found),
                           IF r.state.fault # "none" THEN NoValue
                           ELSE r.value, ArcWhere(key), p)
    /\ UNCHANGED <<impl, capacity, t1_map, t2_map, b1_map, b2_map,
                   lruVars, lfuVars, trace, histVars>>

ArcHppClear ==
    /\ impl = "ARCache(arc.hpp)" /\ fault = "none"
    /\ SetArcHpp(arc_clear(ArcHppState))
    /\ last' = Call("clear", 0, NoValue, "void", NoValue, "none", p)
    /\ UNCHANGED <<impl, capacity, t1_map, t2_map, b1_map, b2_map,
                   lruVars, lfuVars, trace, histVars>>

NextArcHpp ==
    \/ \E key \in Keys, value \in Values, junk \in Junk :
           ArcHppPut(key, value, junk)
    \/ \E key \in Keys : ArcHppGet(key)
    \/ ArcHppClear

SpecArcHpp == InitArcHpp /\ [][NextArcHpp]_vars

\* The adaptation of p in cases 3 and 4 of put, as a function of capacity,
\* p, |B1| and |B2|: a full cache (T1 empty, T2 holding capacity keys) with
\* every p in 0..capacity and every |B1| + |B2| in 1..capacity, on each of
\* which one ghost key is put.
MaxAdaptCapacity == 5

Iota(first, n) == [i \in 1..n |-> first + i - 1]

InitAdapt ==
    /\ impl = "ARCache"
    /\ capacity \in 1..MaxAdaptCapacity
    /\ p \in 0..capacity
    /\ \E n1, n2 \in 0..capacity :
           /\ n1 + n2 >= 1 /\ n1 + n2 <= capacity
           /\ b1 = Iota(1, n1)
           /\ b2 = Iota(n1 + 1, n2)
           /\ t2 = Iota(n1 + n2 + 1, capacity)
    /\ t1 = <<>>
    /\ t1_map = EmptyMap
    /\ t2_map = [k \in Members(t2) |-> Entry(1, k)]
    /\ b1_map = [k \in Members(b1) |-> k]
    /\ b2_map = [k \in Members(b2) |-> k]
    /\ cache_list = <<>> /\ cache_map = EmptyMap
    /\ minFreq = 0
    /\ keyToVal = EmptyMap /\ keyToIter = EmptyMap /\ freqToKeys = EmptyMap
    /\ fault = "none"
    /\ last = Call("new", 0, NoValue, "void", NoValue, "none", 0)
    /\ trace = Untracked
    /\ cache = EmptyMap /\ ghost = EmptyMap
    /\ recency = <<>> /\ uses = EmptyMap

NextAdapt ==
    /\ last.op = "new"
    /\ \E key \in Members(b1) \cup Members(b2) : ARCachePut(key, 1)

SpecAdapt == InitAdapt /\ [][NextAdapt]_vars

\* An ARCache and an LRUCache of the same capacity given the same puts, each
\* of a key not put before; recency holds the keys put, the latest first.
MaxDistinct == 4

DistinctKeys == 1..MaxDistinct

InitDistinct ==
    /\ impl = "ARCache"
    /\ capacity \in 1..MaxCapacity
    /\ p = 0
    /\ t1 = <<>> /\ t2 = <<>> /\ b1 = <<>> /\ b2 = <<>>
    /\ t1_map = EmptyMap /\ t2_map = EmptyMap
    /\ b1_map = EmptyMap /\ b2_map = EmptyMap
    /\ cache_list = <<>> /\ cache_map = EmptyMap
    /\ minFreq = 0
    /\ keyToVal = EmptyMap /\ keyToIter = EmptyMap /\ freqToKeys = EmptyMap
    /\ fault = "none"
    /\ last = Call("new", 0, NoValue, "void", NoValue, "none", 0)
    /\ trace = Untracked
    /\ cache = EmptyMap /\ ghost = EmptyMap
    /\ recency = <<>> /\ uses = EmptyMap

DistinctPut(key, value) ==
    /\ impl = "ARCache" /\ fault = "none"
    /\ ~InList(recency, key)
    /\ \E s \in {ARCache_put(ArcState, key, value)},
          l \in {LRUCache_put(LruState, key, value)} :
           /\ p' = s.p
           /\ t1' = s.t1 /\ t2' = s.t2 /\ b1' = s.b1 /\ b2' = s.b2
           /\ t1_map' = s.t1_map /\ t2_map' = s.t2_map
           /\ b1_map' = s.b1_map /\ b2_map' = s.b2_map
           /\ cache_list' = l.cache_list /\ cache_map' = l.cache_map
           /\ fault' = IF s.fault # "none" THEN s.fault ELSE l.fault
           /\ last' = Call("put", key, value,
                           IF s.fault = "none" /\ l.fault = "none"
                           THEN "void" ELSE "fault",
                           NoValue, ArcWhere(key), p)
    /\ recency' = push_front(recency, key)
    /\ UNCHANGED <<impl, capacity, hppVars, lfuVars, trace, uses>>

NextDistinct ==
    \E key \in DistinctKeys, value \in Values : DistinctPut(key, value)

SpecDistinct == InitDistinct /\ [][NextDistinct]_vars

\* ------------------------------------------------------------- claims
IsArc == impl = "ARCache"
T1 == Members(t1)
T2 == Members(t2)
B1 == Members(b1)
B2 == Members(b2)
NoDuplicates(l) == \A i, j \in 1..Len(l) : l[i] = l[j] => i = j

\* C1: with capacity >= 1 the number of resident keys |T1| + |T2| is at
\* most capacity after every call.
ResidentWithinCapacity ==
    (IsArc /\ capacity >= 1) => Len(t1) + Len(t2) <= capacity

\* a put of an unseen key into a full cache has evicted a key to a ghost list
ResidentFull ==
    /\ IsArc /\ capacity >= 1
    /\ last.op = "put" /\ last.where = "none" /\ last.ret = "void"
    /\ Len(t1) + Len(t2) = capacity
    /\ b1 # <<>> \/ b2 # <<>>

\* C2: each key is in at most one of T1, T2, B1, B2 and no list holds a key
\* twice, after every call.
ListsDisjoint ==
    IsArc => NoDuplicates(t1 \o t2 \o b1 \o b2)

\* a put of a key of B1 has moved it to T2 while other keys stay in the lists
GhostMovedToT2 ==
    /\ IsArc
    /\ last.op = "put" /\ last.where = "b1" /\ last.ret = "void"
    /\ last.key \in T2
    /\ t1 # <<>> /\ b2 # <<>>

\* C3: 0 <= p <= capacity after every call.
PInRange ==
    IsArc => (0 <= p /\ p <= capacity)

\* a put of a key of B1 has raised p, which stopped at capacity
PAtCapacity ==
    /\ IsArc /\ capacity >= 1
    /\ last.op = "put" /\ last.where = "b1"
    /\ p = capacity /\ last.p0 < p

\* C4: with capacity >= 1, |T1| + |B1| <= capacity and |B1| + |B2| <=
\* capacity after every call (so the four lists hold at most 2 x capacity).
GhostBounds ==
    (IsArc /\ capacity >= 1) =>
        /\ Len(t1) + Len(b1) <= capacity
        /\ Len(b1) + Len(b2) <= capacity
        /\ Len(t1) + Len(t2) + Len(b1) + Len(b2) <= 2 * capacity

\* a put of an unseen key has left the four lists full: 2 x capacity keys
ListsFull ==
    /\ IsArc /\ capacity >= 1
    /\ last.op = "put" /\ last.where = "none" /\ last.ret = "void"
    /\ Len(b1) + Len(b2) = capacity
    /\ Len(t1) + Len(t2) = capacity

\* C5: get(key) on a key that is in neither T1 nor T2 reports a miss and
\* leaves T1, T2, B1, B2, the stored values and p unchanged.
GetMissFrame ==
    [][(IsArc /\ last'.op = "get" /\ last'.key \notin (T1 \cup T2)) =>
           (last'.ret = "miss" /\ UNCHANGED <<arcVars, fault>>)]_vars

\* a get of a ghost key has missed
GhostGetMissed ==
    /\ IsArc
    /\ last.op = "get" /\ last.where \in {"b1", "b2"}
    /\ last.ret = "miss"

\* what get(key) returns in the current state of the cache in use
GetNow(key) ==
    IF impl = "ARCache" THEN ARCache_get(ArcState, key)
    ELSE IF impl = "LRUCache" THEN LRUCache_get(LruState, key)
    ELSE LFUCache_get(LfuState, key)

\* C6: for each implementation with capacity >= 1, immediately after
\* put(k, v) a get(k) hits and returns v, the value of the most recent put.
PutThenGetHits ==
    (capacity >= 1 /\ last.op = "put") =>
        /\ fault = "none"
        /\ GetNow(last.key).found
        /\ GetNow(last.key).value = last.value

\* C7: after clear() the ARC state is the freshly constructed one: size()
\* is 0, every get misses, the four lists are empty and p is 0.
ClearResets ==
    (IsArc /\ last.op = "clear") =>
        /\ ArcState = ARCache_ctor(capacity)
        /\ ARCache_size(ArcState) = 0
        /\ \A key \in Keys \cup ScenarioKeys :
               ~ARCache_get(ArcState, key).found

\* a clear() of a cache whose p had been raised by ghost hits
ClearedAdapted ==
    IsArc /\ last.op = "clear" /\ last.p0 > 0

\* C8: a put of an unseen key leaves it at the front of T1; a get of that
\* key right after moves it from T1 to the front of T2; every get or put of
\* a key of T2 leaves it in T2, at the front.
PromotionLaw ==
    [][IsArc =>
         /\ (last'.op = "put" /\ last'.where = "none" /\ last'.ret = "void")
                => (t1' # <<>> /\ begin(t1') = last'.key)
         /\ (/\ last.op = "put" /\ last.where = "none" /\ last.ret = "void"
             /\ last'.op = "get" /\ last'.key = last.key)
                => (/\ last'.ret = "hit"
                    /\ ~InList(t1', last'.key)
                    /\ t2' # <<>> /\ begin(t2') = last'.key)
         /\ (last'.op \in {"get", "put"} /\ InList(t2, last'.key))
                => (/\ ~InList(t1', last'.key)
                    /\ t2' # <<>> /\ begin(t2') = last'.key)]_vars

\* a key of T2 that was not at the front has been accessed again
ThirdAccessInT2 ==
    /\ IsArc
    /\ last.op \in {"get", "put"} /\ last.where = "t2"
    /\ Len(t2) >= 2 /\ begin(t2) = last.key

\* C9: a put whose key is in B1 leaves p >= its previous value, a put whose
\* key is in B2 leaves p <= its previous value.
AdaptationDirection ==
    (IsArc /\ last.op = "put") =>
        /\ last.where = "b1" => p >= last.p0
        /\ last.where = "b2" => p <= last.p0

\* a put of a key of B2 has lowered p
B2HitLoweredP ==
    IsArc /\ last.op = "put" /\ last.where = "b2" /\ p < last.p0

\* the value given to the i-th call of the scenario being followed
Given(i) == trace[i][3]

\* C10: capacity 3: after put 1, 2, 3 and get 1, 2, 3 each get hit with the
\* value put and the three keys are in T2; put(4) then evicts key 1, the T2
\* tail, into B2; get(1) misses and get(4) hits with the value put for 4.
Scenario3Holds ==
    (IsArc /\ capacity = Scenario3.capacity /\ trace # Untracked) =>
        /\ Len(trace) \in 4..6 =>
               last.ret = "hit" /\ last.out = Given(Len(trace) - 3)
        /\ Len(trace) = 6 => (T2 = {1, 2, 3} /\ t1 = <<>>)
        /\ Len(trace) = 7 =>
               /\ b2 = <<1>> /\ 1 \notin T1 \cup T2
               /\ t2 = <<3, 2>> /\ t1 = <<4>>
        /\ Len(trace) = 8 => last.ret = "miss"
        /\ Len(trace) = 9 => last.ret = "hit" /\ last.out = Given(7)

\* the scenario has been followed to its last call
Scenario3Done ==
    /\ IsArc /\ capacity = Scenario3.capacity
    /\ trace # Untracked /\ Len(trace) = Len(Scenario3.calls)
    /\ last.ret = "hit"

\* C11: capacity 2: after put 1, 2 both keys are in T1 and nothing has been
\* evicted; put(3) evicts key 1, the T1 tail, into B1; put(1, v2) then finds
\* key 1 in B1, raises p and leaves key 1 at the front of T2 with value v2,
\* not in T1.
Scenario2Holds ==
    (IsArc /\ capacity = Scenario2.capacity /\ trace # Untracked) =>
        /\ Len(trace) = 2 =>
               /\ T1 = {1, 2} /\ t2 = <<>> /\ b1 = <<>> /\ b2 = <<>>
        /\ Len(trace) = 3 =>
               /\ last.p0 = 0
               /\ b1 = <<1>> /\ 1 \notin T1 \cup T2
        /\ Len(trace) = 4 =>
               /\ last.where = "b1" /\ p > last.p0
               /\ t2 # <<>> /\ begin(t2) = 1
               /\ 1 \in DOMAIN t2_map /\ t2_map[1].first = Given(4)
               /\ 1 \notin T1

\* C12: an ARCache constructed with capacity 0: every put completes without
\* removing an element from an empty list and leaves size() = 0, and every
\* get misses.
ZeroCapacityRetainsNothing ==
    (IsArc /\ capacity = 0) =>
        /\ fault = "none"
        /\ ARCache_size(ArcState) = 0
        /\ last.op = "get" => last.ret = "miss"

\* the value LRUCache holds for a resident key
LruValue(l, key) == l[PairAt(l, key)].second

\* the key of resident whose latest touch is the oldest
OldestTouched(order, resident) == back(Among(order, resident))

\* C13: LRUCache with capacity >= 1: size() never exceeds capacity; a put
\* that inserts a new key while size() = capacity removes exactly one key,
\* the resident key whose latest touch (a put, or a get that hit) is the
\* oldest, and every other resident key stays resident with its value.
LruEvictsOldestTouch ==
    [][(impl = "LRUCache" /\ capacity >= 1) =>
         /\ LRUCache_size(LruState)' <= capacity
         /\ (/\ last'.op = "put" /\ last'.where = "none"
             /\ LRUCache_size(LruState) = capacity) =>
                LET victim == OldestTouched(recency, DOMAIN cache_map)
                IN  /\ DOMAIN cache_map \ DOMAIN cache_map' = {victim}
                    /\ \A k \in DOMAIN cache_map \ {victim} :
                           /\ k \in DOMAIN cache_map'
                           /\ InPairList(cache_list', k)
                           /\ LruValue(cache_list', k) =
                                  LruValue(cache_list, k)]_vars

\* a put of a new key into a full LRUCache of two keys or more has removed
\* the key touched longest ago
LruEvictedOldest ==
    /\ impl = "LRUCache" /\ capacity >= 2
    /\ last.op = "put" /\ last.where = "none" /\ last.ret = "void"
    /\ Len(cache_list) = capacity
    /\ Len(recency) = capacity + 1
    /\ back(recency) \notin DOMAIN cache_map

\* the smallest touch count among the keys of resident
LeastUsed(n, resident) ==
    CHOOSE m \in {n[k] : k \in resident} : \A k \in resident : m <= n[k]

\* C14: LFUCache with capacity >= 1: a put that inserts a new key while
\* size() = capacity removes exactly one key; it has the smallest access
\* count (1 at insertion, one more for each later put or hitting get) among
\* the resident keys and, among the keys with that count, it is the one
\* touched least recently.
LfuEvictsLeastUsed ==
    [][(/\ impl = "LFUCache" /\ capacity >= 1
        /\ last'.op = "put" /\ last'.where = "none"
        /\ LFUCache_size(LfuState) = capacity) =>
             LET resident == DOMAIN keyToVal
                 least == LeastUsed(uses, resident)
                 ties == {k \in resident : uses[k] = least}
             IN  /\ DOMAIN uses = resident
                 /\ resident \ DOMAIN keyToVal' =
                        {OldestTouched(recency, ties)}]_vars

\* a put of a new key into a full LFUCache has removed a key touched later
\* than a key that stayed resident, which had been touched more often
LfuEvictedLaterTouched ==
    /\ impl = "LFUCache" /\ capacity >= 2
    /\ last.op = "put" /\ last.where = "none" /\ last.ret = "void"
    /\ LFUCache_size(LfuState) = capacity
    /\ \E i, j \in 1..Len(recency) :
           /\ i < j
           /\ recency[i] \notin DOMAIN keyToVal
           /\ recency[j] \in DOMAIN keyToVal /\ uses[recency[j]] >= 2

IsArcHpp == impl = "ARCache(arc.hpp)"

\* C15: the ARCache of arc.hpp with capacity >= 1: after every call size(),
\* the number of resident entries |T1| + |T2|, is at most capacity.
ArcHppWithinCapacity ==
    (IsArcHpp /\ capacity >= 1) =>
        /\ arc_size(ArcHppState) <= capacity
        /\ Len(t1) + Len(t2) <= capacity

\* the calls of replace that put(key) makes in state s: the state replace
\* is called in and its argument in_b2
ReplaceCalls(s, key) ==
    IF count(s.t1_map, key) = 1 \/ count(s.t2_map, key) = 1 THEN {}
    ELSE IF count(s.b1_map, key) = 1
    THEN {[state |-> [s EXCEPT !.p = GrowP(s)], in_b2 |-> FALSE]}
    ELSE IF count(s.b2_map, key) = 1
    THEN {[state |-> [s EXCEPT !.p = ShrinkP(s)], in_b2 |-> TRUE]}
    ELSE IF Len(s.t1) + Len(s.b1) >= s.capacity
    THEN IF Len(s.t1) < s.capacity
         THEN {[state |-> IF s.b1 # <<>>
                          THEN [s EXCEPT !.b1 = pop_back(@),
                                         !.b1_map = map_erase(@, back(s.b1))]
                          ELSE s,
                in_b2 |-> FALSE]}
         ELSE {}
    ELSE IF Len(s.t1) + Len(s.t2) + Len(s.b1) + Len(s.b2) >= s.capacity
    THEN {[state |-> IF Len(s.t1) + Len(s.t2) + Len(s.b1) + Len(s.b2)
                            = 2 * s.capacity /\ s.b2 # <<>>
                     THEN [s EXCEPT !.b2 = pop_back(@),
                                    !.b2_map = map_erase(@, back(s.b2))]
                     ELSE s,
           in_b2 |-> FALSE]}
    ELSE {}

\* C16: whenever replace runs it removes T1's tail and pushes it on the front
\* of B1 exactly when T1 is non-empty and (|T1| > p, or the triggering key
\* came from B2 and |T1| = p); in every other case it removes T2's tail and
\* pushes it on the front of B2; either way the evicted key keeps no value.
ReplaceRule ==
    (IsArc /\ fault = "none") =>
        \A key \in Keys \cup ScenarioKeys :
            \A c \in ReplaceCalls(ArcState, key) :
                LET s == c.state
                    r == replace(s, c.in_b2)
                IN  IF s.t1 # <<>> /\ (Len(s.t1) > s.p
                                      \/ (c.in_b2 /\ Len(s.t1) = s.p))
                    THEN /\ r.fault = "none"
                         /\ r.t1 = pop_back(s.t1)
                         /\ r.b1 = push_front(s.b1, back(s.t1))
                         /\ r.t2 = s.t2 /\ r.b2 = s.b2
                         /\ r.t2_map = s.t2_map
                         /\ back(s.t1) \notin DOMAIN r.t1_map
                    ELSE /\ r.fault = "none"
                         /\ s.t2 # <<>>
                         /\ r.t2 = pop_back(s.t2)
                         /\ r.b2 # <<>> /\ begin(r.b2) = back(s.t2)
                         /\ r.t1 = s.t1 /\ r.b1 = s.b1
                         /\ r.t1_map = s.t1_map
                         /\ back(s.t2) \notin DOMAIN r.t2_map

\* replace, called for a key of B2 while |T1| = p, takes T1's tail
ReplacedAtTarget ==
    /\ IsArc /\ fault = "none"
    /\ \E key \in B2 :
           \E c \in ReplaceCalls(ArcState, key) :
               /\ c.in_b2
               /\ c.state.t1 # <<>> /\ Len(c.state.t1) = c.state.p
               /\ replace(c.state, c.in_b2).b1 = push_front(b1, back(t1))

\* C17: with capacity >= 1, after put(k, v) on a key k that was in B1 or B2,
\* k is at the front of T2 with value v and is in none of B1, B2 and T1.
GhostPutPromotes ==
    (/\ IsArc /\ capacity >= 1
     /\ last.op = "put" /\ last.where \in {"b1", "b2"}) =>
        /\ fault = "none"
        /\ t2 # <<>> /\ begin(t2) = last.key
        /\ last.key \in DOMAIN t2_map
        /\ t2_map[last.key].first = last.value
        /\ last.key \notin B1 \cup B2 \cup T1

\* C18: with capacity >= 1, in every reachable state: when put handles a key
\* found in B1 (resp. B2), the key is still in B1 (resp. B2) when put comes
\* to remove it from the ghost list: replace, called just before, has not
\* discarded the key that triggered the call.
TriggerKeyKept ==
    (IsArc /\ capacity >= 1 /\ fault = "none") =>
        \A key \in (DOMAIN b1_map) \cup (DOMAIN b2_map) :
            \A c \in ReplaceCalls(ArcState, key) :
                LET r == replace(c.state, c.in_b2)
                IN  IF c.in_b2
                    THEN InList(r.b2, key) /\ key \in DOMAIN r.b2_map
                    ELSE InList(r.b1, key) /\ key \in DOMAIN r.b1_map

\* C19: with capacity >= 1, in every reachable state: whenever put removes
\* the tail of T1 or of T2, inside replace or in the T1-full branch of case
\* 5, that list is non-empty; replace never falls through to the eviction
\* from T2 while T2 is empty.
TailRemovalsDefined ==
    (IsArc /\ capacity >= 1) =>
        /\ fault \notin {"back of empty t1", "back of empty t2"}
        /\ fault = "none" =>
               \A key \in Keys \cup ScenarioKeys :
                   \A c \in ReplaceCalls(ArcState, key) :
                       \/ /\ c.state.t1 # <<>>
                          /\ \/ Len(c.state.t1) > c.state.p
                             \/ c.in_b2 /\ Len(c.state.t1) = c.state.p
                       \/ c.state.t2 # <<>>

\* replace, called with T1 non-empty and within its target, takes the tail
\* of T2, its only key
LastOfT2Evicted ==
    /\ IsArc /\ capacity >= 1 /\ fault = "none"
    /\ \E key \in Keys \cup ScenarioKeys :
           \E c \in ReplaceCalls(ArcState, key) :
               /\ c.state.t1 # <<>> /\ Len(c.state.t1) <= c.state.p
               /\ Len(c.state.t2) = 1
               /\ replace(c.state, c.in_b2).fault = "none"
               /\ replace(c.state, c.in_b2).t2 = <<>>
               /\ begin(replace(c.state, c.in_b2).b2) = back(t2)

\* C20: with capacity >= 1: a key that a put makes stop being resident is a
\* ghost right after the put, in B1 if it was in T1 and in B2 if it was in
\* T2; a key leaves the four lists only from the tail of a ghost list.
EvictedBecomesGhost ==
    [][(IsArc /\ capacity >= 1 /\ last'.op = "put") =>
         /\ \A k \in T1 \ (T1' \cup T2') : k \in B1'
         /\ \A k \in T2 \ (T1' \cup T2') : k \in B2'
         /\ \A k \in (T1 \cup T2 \cup B1 \cup B2)
                      \ (T1' \cup T2' \cup B1' \cup B2') :
                \/ b1 # <<>> /\ k = back(b1)
                \/ b2 # <<>> /\ k = back(b2)]_vars

\* C21: with capacity >= 1, on every get or put step a key that is in T2
\* before the step is afterwards still in T2 or else in B2; it is never in
\* T1 and never in B1.
T2LeavesOnlyToB2 ==
    [][(IsArc /\ capacity >= 1 /\ last'.op \in {"get", "put"}) =>
         \A k \in T2 : /\ k \in T2' \/ k \in B2'
                       /\ k \notin T1' /\ k \notin B1']_vars

\* a put of a key of B1 met an empty T1, so that replace moved the tail of
\* T2 to the front of B2, while another key stayed in T2
T2TailDemoted ==
    /\ IsArc /\ capacity >= 1
    /\ last.op = "put" /\ last.where = "b1" /\ last.ret = "void"
    /\ t1 = <<>> /\ b1 = <<>>
    /\ b2 # <<>> /\ Len(t2) >= 2

\* C22: with capacity >= 1, after every call the keys of t1_map, t2_map,
\* b1_map and b2_map are the members of T1, T2, B1 and B2, each stored
\* iterator is the position of its own key in that list, and values are
\* stored for the keys of T1 and T2 only.
IndexMatchesLists ==
    (IsArc /\ capacity >= 1) =>
        /\ DOMAIN t1_map = T1 /\ DOMAIN t2_map = T2
        /\ DOMAIN b1_map = B1 /\ DOMAIN b2_map = B2
        /\ \A k \in DOMAIN t1_map : t1_map[k].second = k
        /\ \A k \in DOMAIN t2_map : t2_map[k].second = k
        /\ \A k \in DOMAIN b1_map : b1_map[k] = k
        /\ \A k \in DOMAIN b2_map : b2_map[k] = k
        /\ \A k \in DOMAIN t1_map : t1_map[k].first \in Values
        /\ \A k \in DOMAIN t2_map : t2_map[k].first \in Values
        /\ \A k \in DOMAIN b1_map \cup DOMAIN b2_map :
               k \notin DOMAIN t1_map \cup DOMAIN t2_map

\* the list l without the key k, the other keys in their order
Without(l, k) == SelectSeq(l, LAMBDA x : x # k)

\* the value stored with a resident key
ArcValue(m1, m2, k) == IF k \in DOMAIN m1 THEN m1[k].first ELSE m2[k].first

\* C23: a get that hits, and a put of a key of T1 or T2, leave p, B1, B2
\* and the set of resident keys unchanged; the key becomes the front of T2,
\* the other keys of T1 and T2 keep their order and their values, and the
\* key's value is the one put, or for get the one it had, which is returned.
ResidentAccessFrame ==
    [][(IsArc /\ last'.op \in {"get", "put"} /\ last'.key \in T1 \cup T2) =>
         LET key == last'.key
         IN  /\ last'.ret = IF last'.op = "get" THEN "hit" ELSE "void"
             /\ UNCHANGED <<p, b1, b2, b1_map, b2_map>>
             /\ T1' \cup T2' = T1 \cup T2
             /\ t1' = Without(t1, key)
             /\ t2' = <<key>> \o Without(t2, key)
             /\ \A k \in (T1 \cup T2) \ {key} :
                    ArcValue(t1_map', t2_map', k) = ArcValue(t1_map, t2_map, k)
             /\ t2_map'[key].first =
                    IF last'.op = "put" THEN last'.value
                    ELSE ArcValue(t1_map, t2_map, key)
             /\ last'.op = "get" => last'.out = ArcValue(t1_map, t2_map, key)
      ]_vars

\* a get has hit a key of T1 and moved it in front of the keys of T2, with
\* a ghost present
T1HitWithGhosts ==
    /\ IsArc
    /\ last.op = "get" /\ last.where = "t1" /\ last.ret = "hit"
    /\ Len(t2) >= 2 /\ begin(t2) = last.key
    /\ b1 # <<>> \/ b2 # <<>>

\* C24: a put whose key is in B1 leaves p = min(capacity, p + max(1,
\* floor(|B2| / |B1|))), the sizes taken before the key is removed; the
\* increase is at least 1 unless p stops at capacity, and no smaller |B2|
\* with the same |B1| would have given a larger p.
B1HitRaisesP ==
    [][(IsArc /\ last'.op = "put" /\ last'.key \in B1) =>
         /\ p' = Min(capacity, p + Max(1, Len(b2) \div Len(b1)))
         /\ p' >= p + 1 \/ p' = capacity
         /\ \A m \in 0..Len(b2) :
                GrowP([ArcState EXCEPT !.b2 = SubSeq(b2, 1, m)]) <= p'
      ]_vars

\* a put of a key of B1, with B2 at least twice as long as B1, has raised p
\* by more than 1 without reaching capacity
PRaisedByRatio ==
    /\ IsArc
    /\ last.op = "put" /\ last.where = "b1" /\ last.ret = "void"
    /\ p >= last.p0 + 2 /\ p < capacity

\* C25: a put whose key is in B2 leaves p = max(0, p - max(1, floor(|B1| /
\* |B2|))), the sizes taken before the key is removed: the decrease mirrors
\* the increase on a B1 hit with B1 and B2 swapped.
B2HitLowersP ==
    [][(IsArc /\ last'.op = "put" /\ last'.key \in B2) =>
           p' = Max(0, p - Max(1, Len(b1) \div Len(b2)))]_vars

\* C26: the ARCache of arc.hpp with capacity >= 1: replace never pops the
\* tail of an empty B1 or B2 and never reads the tail of a list it has just
\* emptied; every put is defined in every reachable state.
ArcHppPutDefined ==
    (IsArcHpp /\ capacity >= 1) =>
        /\ fault = "none"
        /\ last.ret \notin {"fault", "undefined"}

\* C27: the ARCache of arc.hpp with capacity >= 1: a resident key that a
\* put removes to make room is afterwards at the front of B1 if it was in
\* T1, at the front of B2 if it was in T2, and in the ghost index, so that
\* a later put of it is a ghost hit.
ArcHppEvictedIsGhost ==
    [][(IsArcHpp /\ capacity >= 1 /\ last'.op = "put") =>
         \A k \in (DOMAIN cache) \ (DOMAIN cache') :
             /\ k \in DOMAIN ghost'
             /\ k \in T1 => (b1' # <<>> /\ begin(b1') = k)
             /\ k \in T2 => (b2' # <<>> /\ begin(b2') = k)]_vars

IsLfu == impl = "LFUCache"

\* C28: LFUCache with capacity >= 1: after every call that leaves the cache
\* non-empty, minFreq is the smallest access count of a resident key and
\* freqToKeys[minFreq] exists and is non-empty, so that the eviction of put
\* always finds a tail to take.
MinFreqIsLeastCount ==
    (IsLfu /\ capacity >= 1 /\ DOMAIN keyToVal # {}) =>
        /\ fault = "none"
        /\ \E k \in DOMAIN keyToVal : keyToVal[k].second = minFreq
        /\ \A k \in DOMAIN keyToVal :
               keyToVal[k].second >= minFreq /\ keyToVal[k].second = uses[k]
        /\ minFreq \in DOMAIN freqToKeys /\ freqToKeys[minFreq] # <<>>
        /\ LFUCache_evict(LfuState).fault = "none"

\* a touch of the only key with the least count has raised minFreq above 1
\* while another key is resident
MinFreqRaised ==
    /\ IsLfu /\ capacity >= 1
    /\ last.op \in {"get", "put"} /\ last.where = "resident"
    /\ minFreq >= 2 /\ keyToVal[last.key].second = minFreq
    /\ Cardinality(DOMAIN keyToVal) >= 2

\* C29: with capacity >= 1, while every call is a put of a key not put
\* before, T2, B1 and B2 are empty, p is 0, the resident keys are the
\* min(n, capacity) keys put last, and every get would hit or miss, and
\* return the value, as on an LRUCache of the same capacity given the same
\* puts.
DistinctPutsLikeLru ==
    (IsArc /\ capacity >= 1) =>
        /\ fault = "none"
        /\ t2 = <<>> /\ b1 = <<>> /\ b2 = <<>> /\ p = 0
        /\ t1 = SubSeq(recency, 1, Min(Len(recency), capacity))
        /\ \A k \in DistinctKeys :
               /\ ARCache_get(ArcState, k).found
                      = LRUCache_get(LruState, k).found
               /\ ARCache_get(ArcState, k).value
                      = LRUCache_get(LruState, k).value
        /\ ARCache_size(ArcState) = LRUCache_size(LruState)

\* two more distinct keys have been put than the cache holds: both caches
\* have evicted twice
DistinctPutsEvicted ==
    /\ IsArc /\ capacity >= 2
    /\ last.op = "put" /\ last.ret = "void"
    /\ Len(recency) >= capacity + 2
    /\ Len(t1) = capacity /\ Len(cache_list) = capacity

\* C30: with capacity >= 1, size() never decreases on a get or put step, so
\* once size() == capacity it stays so until clear(); B1 and B2 are
\* non-empty only in states where size() == capacity.
SizeNeverDecreases ==
    [][(IsArc /\ capacity >= 1) =>
         /\ last'.op \in {"get", "put"} =>
                ARCache_size(ArcState') >= ARCache_size(ArcState)
         /\ (last'.op \in {"get", "put"} /\ ARCache_size(ArcState) = capacity)
                => ARCache_size(ArcState') = capacity
         /\ (b1' # <<>> \/ b2' # <<>>) => ARCache_size(ArcState') = capacity
      ]_vars

====
